---- MODULE Spec2Model ----
(***************************************************************************)
(* Model of the magento2-ls symbol resolution engine (src/src/main.rs):    *)
(* the Indexer (Module Registry + Class Index), get_module_path,           *)
(* get_php_class_from_class_name, get_location_from_params and main_loop.  *)
(*                                                                         *)
(* A string is a sequence of tokens; the tokens "\\" and "." are the       *)
(* namespace separator and the dot, every other token is a run of name     *)
(* characters.  A PathBuf is a sequence of components, each a string.      *)
(***************************************************************************)
EXTENDS Integers, Sequences, FiniteSets, TLC

VARIABLES
    magento_modules,  \* Indexer.magento_modules: prefix string -> module directory
    php_classes,      \* Indexer.php_classes: class name -> PHPClass
    files,            \* the filesystem: path -> NoFile, Garbage or a class source
    inbox,            \* every message put on connection.receiver so far
    pos,              \* index in inbox of the next message main_loop takes
    sender,           \* connection.sender: the responses sent so far
    status,           \* main_loop: "starting", "running", "stopped" or "panicked"
    call,             \* the call under study of a resolver function (None before it)
    ret,              \* what that call returned
    init_params,      \* the InitializeParams main_loop was started with
    tables_parsed     \* class name -> how many Symbol Tables parse_php_file made for it

vars == <<magento_modules, php_classes, files, inbox, pos, sender, status, call, ret,
          init_params, tables_parsed>>

(***************************************************************************)
(* Bounds                                                                  *)
(***************************************************************************)
MaxDepth == 3      \* segments of a class name given to get_module_path
MaxIndexDepth == 2 \* segments of a class name given to get_php_class_from_class_name
MaxModules == 2    \* entries of the Module Registry
MaxFiles == 2      \* files present when get_php_class_from_class_name is called
MaxMsgs == 2       \* messages the client sends to the server
MaxSegLen == 3     \* tokens of a segment given to candidate_path
MaxSuffix == 2     \* segments of a suffix given to candidate_path
MaxFolders == 1    \* workspace folders the client configures besides root_uri

(***************************************************************************)
(* Option values                                                           *)
(***************************************************************************)
None == [tag |-> "None"]
Some(v) == [tag |-> "Some", val |-> v]

(***************************************************************************)
(* Strings                                                                 *)
(***************************************************************************)
Sep == "\\"
Dot == "."

\* a reversal that is forgotten
Rev_forgotten(s) == s

RECURSIVE Rev(_)
Rev(s) ==
    IF s = <<>> THEN <<>> ELSE Append(Rev(Tail(s)), Head(s))

Front(s) == SubSeq(s, 1, Len(s) - 1)
Last(s) == s[Len(s)]

\* str::split("\\"): the segments between separators; never empty
RECURSIVE Split(_)
Split(s) ==
    IF \A i \in 1..Len(s) : s[i] # Sep
    THEN <<s>>
    ELSE LET i == CHOOSE j \in 1..Len(s) :
                      s[j] = Sep /\ \A k \in 1..(j - 1) : s[k] # Sep
         IN  <<SubSeq(s, 1, i - 1)>> \o Split(SubSeq(s, i + 1, Len(s)))

\* [&str]::join("\\")
RECURSIVE Join(_)
Join(parts) ==
    IF parts = <<>> THEN <<>>
    ELSE IF Len(parts) = 1 THEN parts[1]
    ELSE parts[1] \o <<Sep>> \o Join(Tail(parts))

(***************************************************************************)
(* get_module_path (main.rs 101-119)                                       *)
(***************************************************************************)
\* the while-let loop: parts is what is left of the name, suffix the popped
\* segments in pop order
RECURSIVE ModulePathLoop(_, _, _)
ModulePathLoop(modules, parts, suffix) ==
    IF parts = <<>> THEN None
    ELSE LET part == Last(parts)
             rest == Front(parts)
             suffix2 == Append(suffix, part)
             prefix == Join(rest)
         IN  IF prefix \in DOMAIN modules
             THEN Some(<<modules[prefix], Rev(suffix2)>>)
             ELSE ModulePathLoop(modules, rest, suffix2)

\* a resolver that widens the prefix instead of shortening it
RECURSIVE ShortestFirstLoop(_, _, _)
ShortestFirstLoop(modules, parts, k) ==
    IF k >= Len(parts) THEN None
    ELSE IF Join(SubSeq(parts, 1, k)) \in DOMAIN modules
    THEN Some(<<modules[Join(SubSeq(parts, 1, k))],
                SubSeq(parts, k + 1, Len(parts))>>)
    ELSE ShortestFirstLoop(modules, parts, k + 1)

get_module_path_shortest_first(modules, class) ==
    ShortestFirstLoop(modules, Split(class), 0)

\* a resolver that also tries the whole name as a prefix
get_module_path_or_equal(modules, class) ==
    IF class \in DOMAIN modules
    THEN Some(<<modules[class], <<>>>>)
    ELSE ModulePathLoop(modules, Split(class), <<>>)

get_module_path(modules, class) ==
    ModulePathLoop(modules, Split(class), <<>>)

(***************************************************************************)
(* PathBuf (std::path), by components                                      *)
(***************************************************************************)
\* PathBuf::push of a relative part without a path separator: an empty part
\* or "." adds no component
push(path, part) ==
    IF part = <<>> \/ part = <<Dot>> THEN path ELSE Append(path, part)

\* Path::file_stem of one component: the part before the last dot, or the
\* whole component when it has no dot or only a leading one
file_stem(c) ==
    LET dots == {i \in 1..Len(c) : c[i] = Dot}
    IN  IF dots = {} THEN c
        ELSE LET i == CHOOSE j \in dots : \A k \in dots : k <= j
             IN  IF i = 1 THEN c ELSE SubSeq(c, 1, i - 1)

\* PathBuf::set_extension: no file name (empty path, "..") leaves the path
\* alone; otherwise the last component is cut after its stem and "." and
\* the extension are added
set_extension(path, ext) ==
    IF path = <<>> \/ Last(path) = <<Dot, Dot>> THEN path
    ELSE Append(Front(path), file_stem(Last(path)) \o <<Dot>> \o ext)

RECURSIVE PushAll(_, _)
PushAll(path, suffix) ==
    IF suffix = <<>> THEN path
    ELSE PushAll(push(path, Head(suffix)), Tail(suffix))

\* a candidate file whose extension is added to the last segment as it is
candidate_path_appending(mod_path, suffix) ==
    LET pushed == PushAll(mod_path, suffix)
    IN  Append(Front(pushed), Last(pushed) \o <<Dot, "php">>)

\* main.rs 128-131: the candidate file of a matched module directory
candidate_path(mod_path, suffix) ==
    set_extension(PushAll(mod_path, suffix), <<"php">>)

(***************************************************************************)
(* Filesystem and Class Parser                                             *)
(***************************************************************************)
Garbage == [kind |-> "garbage"]
ClassSource(range, methods, constants) ==
    [kind |-> "class", range |-> range, methods |-> methods,
     constants |-> constants]

NoMembers == [x \in {} |-> <<0, 0>>]

\* Path::try_exists: Ok(true) for a file that is there
try_exists(fs, path) == path \in DOMAIN fs

\* php::parse_php_file: the Symbol Table of a file known to exist, or None
parse_php_file(fs, path) ==
    IF fs[path].kind = "class"
    THEN Some([uri |-> path, range |-> fs[path].range,
               methods |-> fs[path].methods,
               constants |-> fs[path].constants])
    ELSE None

(***************************************************************************)
(* HashMap                                                                 *)
(***************************************************************************)
EmptyMap == [x \in {} |-> None]
get_or_absent(map, key) == IF key \in DOMAIN map THEN map[key] ELSE None
insert(map, key, value) ==
    [k \in DOMAIN map \cup {key} |-> IF k = key THEN value ELSE map[k]]

(***************************************************************************)
(* get_php_class_from_class_name (main.rs 121-148)                         *)
(* Returns the Option<PHPClass>, the php_classes map it leaves behind and   *)
(* whether it called parse_php_file.                                       *)
(***************************************************************************)
\* the resolution without its cache: what a miss does
resolve_uncached(classes, modules, fs, class) ==
    LET found == get_module_path(modules, class)
    IN  IF found = None
        THEN [ret |-> None, php_classes |-> classes, parsed |-> FALSE]
        ELSE LET file_path == candidate_path(found.val[1], found.val[2])
             IN  IF try_exists(fs, file_path)
                       /\ parse_php_file(fs, file_path) # None
                 THEN [ret |-> parse_php_file(fs, file_path),
                       php_classes |->
                           insert(classes, class,
                                  parse_php_file(fs, file_path).val),
                       parsed |-> TRUE]
                 ELSE [ret |-> None, php_classes |-> classes,
                       parsed |-> try_exists(fs, file_path)]

\* a Class Index that never reads its cache
get_php_class_never_cached(classes, modules, fs, class) ==
    resolve_uncached(classes, modules, fs, class)

\* a Class Index that refreshes an entry whose file still parses
get_php_class_refreshing(classes, modules, fs, class) ==
    LET r == resolve_uncached(classes, modules, fs, class)
    IN  IF r.ret = None /\ class \in DOMAIN classes
        THEN [ret |-> Some(classes[class]), php_classes |-> classes,
              parsed |-> r.parsed]
        ELSE r

\* a Class Index that remembers a failed lookup as an empty class
get_php_class_caching_failures(classes, modules, fs, class) ==
    IF class \in DOMAIN classes
    THEN [ret |-> Some(classes[class]), php_classes |-> classes,
          parsed |-> FALSE]
    ELSE LET r == resolve_uncached(classes, modules, fs, class)
         IN  IF r.ret # None THEN r
             ELSE [ret |-> None,
                   php_classes |->
                       insert(classes, class,
                              [uri |-> <<>>, range |-> <<0, 0>>,
                               methods |-> NoMembers,
                               constants |-> NoMembers]),
                   parsed |-> r.parsed]

\* a Class Index that runs the parser again on a hit and keeps its entry
get_php_class_parsing_again(classes, modules, fs, class) ==
    LET r == resolve_uncached(classes, modules, fs, class)
    IN  IF class \in DOMAIN classes
        THEN [ret |-> Some(classes[class]), php_classes |-> classes,
              parsed |-> r.ret # None]
        ELSE r

\* a Class Index that tries the next shorter registered prefix when the
\* candidate file of the longest is missing or does not parse
RECURSIVE get_php_class_falling_back(_, _, _, _)
get_php_class_falling_back(classes, modules, fs, class) ==
    LET found == get_module_path(modules, class)
        r == resolve_uncached(classes, modules, fs, class)
        parts == Split(class)
        matched == Join(SubSeq(parts, 1, Len(parts) - Len(found.val[2])))
    IN  IF class \in DOMAIN classes
        THEN [ret |-> Some(classes[class]), php_classes |-> classes,
              parsed |-> FALSE]
        ELSE IF found = None \/ r.ret # None
        THEN r
        ELSE get_php_class_falling_back(
                 classes, [q \in DOMAIN modules \ {matched} |-> modules[q]],
                 fs, class)

\* a Class Index that returns what it parsed and leaves the insert to its
\* caller
get_php_class_insert_left_to_caller(classes, modules, fs, class) ==
    IF class \in DOMAIN classes
    THEN [ret |-> Some(classes[class]), php_classes |-> classes,
          parsed |-> FALSE]
    ELSE LET r == resolve_uncached(classes, modules, fs, class)
         IN  [ret |-> r.ret, php_classes |-> classes, parsed |-> r.parsed]

get_php_class_from_class_name(classes, modules, fs, class) ==
    IF class \in DOMAIN classes
    THEN [ret |-> Some(classes[class]), php_classes |-> classes,
          parsed |-> FALSE]
    ELSE LET found == get_module_path(modules, class)
         IN  IF found = None
             THEN [ret |-> None, php_classes |-> classes, parsed |-> FALSE]
             ELSE LET file_path == candidate_path(found.val[1], found.val[2])
                  IN  IF try_exists(fs, file_path)
                      THEN LET phpclass == parse_php_file(fs, file_path)
                           IN  IF phpclass = None
                               THEN [ret |-> None, php_classes |-> classes,
                                     parsed |-> TRUE]
                               ELSE [ret |-> phpclass,
                                     php_classes |->
                                         insert(classes, class, phpclass.val),
                                     parsed |-> TRUE]
                      ELSE [ret |-> None, php_classes |-> classes,
                            parsed |-> FALSE]

(***************************************************************************)
(* get_location_from_params (main.rs 150-189)                              *)
(* item is what xml::get_item_from_position found at the cursor.           *)
(***************************************************************************)
ItemClass(class) == [kind |-> "Class", class |-> class]
ItemMethod(class, method) ==
    [kind |-> "Method", class |-> class, member |-> method]
ItemConst(class, constant) ==
    [kind |-> "Const", class |-> class, member |-> constant]

Location(uri, range) == [uri |-> uri, range |-> range]

\* a member lookup that does not fall back to the class
member_range_no_fallback(map, name, default) ==
    IF name \in DOMAIN map THEN map[name] ELSE <<0, 0>>

\* a member lookup that always answers with the class
member_range_class_only(map, name, default) == default

\* Option::map_or over a member lookup
member_range(map, name, default) ==
    IF name \in DOMAIN map THEN map[name] ELSE default

get_location_from_params(classes, modules, fs, item) ==
    IF item = None
    THEN [ret |-> None, php_classes |-> classes, parsed |-> FALSE]
    ELSE LET m2 == item.val
             r == get_php_class_from_class_name(classes, modules, fs, m2.class)
         IN  IF r.ret = None
             THEN [ret |-> None, php_classes |-> r.php_classes,
                   parsed |-> r.parsed]
             ELSE LET phpclass == r.ret.val
                      index2 == insert(r.php_classes, m2.class, phpclass)
                      range ==
                          CASE m2.kind = "Class" -> phpclass.range
                            [] m2.kind = "Method" ->
                                 member_range(phpclass.methods, m2.member,
                                              phpclass.range)
                            [] m2.kind = "Const" ->
                                 member_range(phpclass.constants, m2.member,
                                              phpclass.range)
                  IN  [ret |-> Some(Location(phpclass.uri, range)),
                       php_classes |-> index2, parsed |-> r.parsed]

(***************************************************************************)
(* Universes the inputs are drawn from                                     *)
(***************************************************************************)
SeqsUpTo(S, n) == UNION {[1..k -> S] : k \in 0..n}

\* the subsets of S of at most n elements
RECURSIVE SubsetsUpTo(_, _)
SubsetsUpTo(S, n) ==
    IF n = 0 THEN {{}}
    ELSE LET smaller == SubsetsUpTo(S, n - 1)
         IN  smaller \cup {T \cup {x} : T \in smaller, x \in S}

\* segments of class names: a plain one and one with a dotted extension
Segs == {<<"V">>, <<"V", Dot, "b">>}
\* file names a class file of these segments can have
FileNames == {<<"V", Dot, "php">>, <<"V", Dot, "b", Dot, "php">>}
Dirs == {<< <<"D1">> >>, << <<"D2">> >>}

ClassNames == {Join(s) : s \in SeqsUpTo(Segs, MaxDepth) \ {<<>>}}
Prefixes == {Join(s) : s \in SeqsUpTo(Segs, MaxDepth - 1)}
Registries ==
    UNION {[P -> Dirs] :
              P \in SubsetsUpTo(Prefixes, MaxModules)}

\* what a file can hold
ClassA == ClassSource(<<3, 40>>, ("a" :> <<10, 13>>), NoMembers)
ClassB == ClassSource(<<1, 9>>, NoMembers, ("a" :> <<2, 2>>))
Contents == {Garbage, ClassA, ClassB}
MemberNames == {"a"}

\* the server specification: two class names, the prefixes that can be their
\* ancestors, one module directory and the files their candidates can be
ServerDirs == {<< <<"D1">> >>}
ServerNames == {<<"V", Sep, "M", Sep, "W">>, <<"V", Sep, "W">>}
ServerPrefixes == {<<"V">>, <<"V", Sep, "M">>}
ServerRegistries ==
    UNION {[P -> ServerDirs] :
              P \in SubsetsUpTo(ServerPrefixes, MaxModules)}
ServerPaths ==
    {d \o s : d \in ServerDirs,
              s \in {<< <<"W", Dot, "php">> >>,
                     << <<"M">>, <<"W", Dot, "php">> >>}}
ServerFileSystems == UNION {[P -> Contents] : P \in SUBSET ServerPaths}

Items ==
    {None}
    \cup {Some(ItemClass(c)) : c \in ServerNames}
    \cup {Some(ItemMethod(c, m)) : c \in ServerNames, m \in MemberNames}
    \cup {Some(ItemConst(c, k)) : c \in ServerNames, k \in MemberNames}

\* what the client can put on the connection; a "definition" request whose
\* params deserialize carries what the reference extractor will find
Messages ==
    {[kind |-> "definition", item |-> i] : i \in Items}
    \cup {[kind |-> k] : k \in {"definition_bad_params", "shutdown",
                                "other_request", "response", "notification"}}

(***************************************************************************)
(* The server: main_loop (main.rs 44-99) and its environment               *)
(***************************************************************************)
\* a workspace root is the set of <<prefix, directory>> registrations found
\* beneath it; registrations(modules) is a root that scans to modules
registrations(modules) == {<<p, modules[p]>> : p \in DOMAIN modules}

\* php::get_modules_map: the registry a scan of one root builds
get_modules_map(root_path) ==
    [p \in {e[1] : e \in root_path} |->
        (CHOOSE e \in root_path : e[1] = p)[2]]

\* the history of parse_php_file: one more Symbol Table made for the class of
\* item when the call r ran the parser and the parser returned a table
parse_count(counts, class) == IF class \in DOMAIN counts THEN counts[class] ELSE 0
record_parse(counts, item, r) ==
    IF item # None /\ r.parsed /\ r.ret # None
    THEN insert(counts, item.val.class, parse_count(counts, item.val.class) + 1)
    ELSE counts

Init ==
    /\ magento_modules \in ServerRegistries
    /\ php_classes = EmptyMap
    /\ files \in ServerFileSystems
    /\ inbox = <<>>
    /\ pos = 1
    /\ sender = <<>>
    /\ status = "running"
    /\ call = None
    /\ ret = None
    /\ init_params = [root_uri |-> Some(registrations(magento_modules)),
                      workspace_folders |-> <<>>]
    /\ tables_parsed = EmptyMap

\* the client sends a message; requests get the next id.  The channel takes
\* messages from the moment the connection is up, before main_loop receives
ClientSend(m) ==
    /\ status \in {"starting", "running"}
    /\ Len(inbox) < MaxMsgs
    /\ inbox' = Append(inbox, [id |-> Len(inbox) + 1, msg |-> m])
    /\ UNCHANGED <<magento_modules, php_classes, files, pos, sender, status,
                   call, ret,
                   init_params, tables_parsed>>

\* somebody creates or rewrites a file while the server runs
WriteFile(path, content) ==
    /\ status = "running"
    /\ get_or_absent(files, path) # content
    /\ files' = insert(files, path, content)
    /\ UNCHANGED <<magento_modules, php_classes, inbox, pos, sender, status,
                   call, ret,
                   init_params, tables_parsed>>

\* somebody deletes a file while the server runs
DeleteFile(path) ==
    /\ status = "running"
    /\ path \in DOMAIN files
    /\ files' = [q \in DOMAIN files \ {path} |-> files[q]]
    /\ UNCHANGED <<magento_modules, php_classes, inbox, pos, sender, status,
                   call, ret,
                   init_params, tables_parsed>>

Receiving == status = "running" /\ pos <= Len(inbox)
Msg == inbox[pos].msg

\* main.rs 65-67: handle_shutdown answers the shutdown request, takes the
\* message after it if one is there, and main_loop returns
HandleShutdown ==
    /\ Receiving
    /\ Msg.kind = "shutdown"
    /\ sender' = Append(sender, [id |-> inbox[pos].id,
                                 result |-> Some([tag |-> "Null"]),
                                 error |-> None])
    /\ pos' = IF pos < Len(inbox) THEN pos + 2 ELSE pos + 1
    /\ status' = "stopped"
    /\ UNCHANGED <<magento_modules, php_classes, files, inbox, call, ret,
                   init_params, tables_parsed>>

\* main.rs 69-84: a definition request
definition_result(loc) ==
    IF loc = None THEN [tag |-> "Array", locs |-> <<>>]
    ELSE [tag |-> "Array", locs |-> <<loc.val>>]

\* a response that reports a failed lookup as a protocol error
definition_response_with_error(id, loc) ==
    IF loc = None
    THEN [id |-> id, result |-> None, error |-> Some("no definition")]
    ELSE [id |-> id, result |-> Some(definition_result(loc)), error |-> None]

definition_response(id, loc) ==
    [id |-> id, result |-> Some(definition_result(loc)), error |-> None]

\* a handler that hands the request to a worker and takes the next message
\* before the response is sent
HandleDefinition_deferred ==
    /\ Receiving
    /\ Msg.kind = "definition"
    /\ pos' = pos + 1
    /\ UNCHANGED <<magento_modules, php_classes, files, inbox, sender, status,
                   call, ret, init_params, tables_parsed>>

\* a handler that forgets the registered modules when a lookup fails
HandleDefinition_forgetting_modules ==
    /\ Receiving
    /\ Msg.kind = "definition"
    /\ LET r == get_location_from_params(php_classes, magento_modules, files,
                                         Msg.item)
       IN  /\ php_classes' = r.php_classes
           /\ sender' = Append(sender, definition_response(inbox[pos].id, r.ret))
           /\ tables_parsed' = record_parse(tables_parsed, Msg.item, r)
           /\ magento_modules' = IF r.ret = None THEN EmptyMap
                                 ELSE magento_modules
    /\ pos' = pos + 1
    /\ UNCHANGED <<files, inbox, status, call, ret, init_params>>

HandleDefinition ==
    /\ Receiving
    /\ Msg.kind = "definition"
    /\ LET r == get_location_from_params(php_classes, magento_modules, files,
                                         Msg.item)
       IN  /\ php_classes' = r.php_classes
           /\ sender' = Append(sender, definition_response(inbox[pos].id, r.ret))
           /\ tables_parsed' = record_parse(tables_parsed, Msg.item, r)
    /\ pos' = pos + 1
    /\ UNCHANGED <<magento_modules, files, inbox, status, call, ret,
                   init_params>>

\* main.rs 85: the params of a definition request do not deserialize
HandleJsonError ==
    /\ Receiving
    /\ Msg.kind = "definition_bad_params"
    /\ status' = "panicked"
    /\ pos' = pos + 1
    /\ UNCHANGED <<magento_modules, php_classes, files, inbox, sender, call, ret,
                   init_params, tables_parsed>>

\* main.rs 86-88: a request of another method falls through
HandleOtherRequest ==
    /\ Receiving
    /\ Msg.kind = "other_request"
    /\ pos' = pos + 1
    /\ UNCHANGED <<magento_modules, php_classes, files, inbox, sender, status,
                   call, ret,
                   init_params, tables_parsed>>

\* main.rs 90-92
HandleResponse ==
    /\ Receiving
    /\ Msg.kind = "response"
    /\ pos' = pos + 1
    /\ UNCHANGED <<magento_modules, php_classes, files, inbox, sender, status,
                   call, ret,
                   init_params, tables_parsed>>

\* main.rs 93-95
HandleNotification ==
    /\ Receiving
    /\ Msg.kind = "notification"
    /\ pos' = pos + 1
    /\ UNCHANGED <<magento_modules, php_classes, files, inbox, sender, status,
                   call, ret,
                   init_params, tables_parsed>>

main_loop ==
    \/ HandleShutdown
    \/ HandleDefinition
    \/ HandleJsonError
    \/ HandleOtherRequest
    \/ HandleResponse
    \/ HandleNotification

Next ==
    \/ \E m \in Messages : ClientSend(m)
    \/ \E p \in ServerPaths, c \in Contents : WriteFile(p, c)
    \/ \E p \in ServerPaths : DeleteFile(p)
    \/ main_loop

Spec == Init /\ [][Next]_vars

(***************************************************************************)
(* The server from its start (main.rs 44-61): main_loop is entered with    *)
(* the InitializeParams of the client, builds the Indexer and only then    *)
(* receives.  The filesystem is held fixed: either every candidate file is *)
(* in place, or one is missing and the other does not parse.               *)
(***************************************************************************)
Roots == {registrations(m) : m \in ServerRegistries}
InitParams ==
    {[root_uri |-> r, workspace_folders |-> w] :
        r \in {None} \cup {Some(root) : root \in Roots},
        w \in SeqsUpTo(Roots, MaxFolders)}
StartupFileSystems ==
    {[p \in ServerPaths |-> ClassA],
     [p \in {<< <<"D1">>, <<"W", Dot, "php">> >>} |-> Garbage]}

InitStartup ==
    /\ init_params \in InitParams
    /\ magento_modules = EmptyMap
    /\ php_classes = EmptyMap
    /\ files \in StartupFileSystems
    /\ inbox = <<>>
    /\ pos = 1
    /\ sender = <<>>
    /\ status = "starting"
    /\ call = None
    /\ ret = None
    /\ tables_parsed = EmptyMap

\* main.rs 48-58: the params are read and the Indexer is built from the scan
\* of root_uri, all of it before the first receive; a client that gave no
\* root_uri makes the unwrap of line 53 panic
BuildIndexer ==
    /\ status = "starting"
    /\ IF init_params.root_uri = None
       THEN /\ status' = "panicked"
            /\ UNCHANGED magento_modules
       ELSE /\ magento_modules' = get_modules_map(init_params.root_uri.val)
            /\ status' = "running"
    /\ UNCHANGED <<php_classes, files, inbox, pos, sender, call, ret,
                   init_params, tables_parsed>>

NextStartup ==
    \/ BuildIndexer
    \/ \E m \in Messages : ClientSend(m)
    \/ main_loop

SpecStartup == InitStartup /\ [][NextStartup]_vars

(***************************************************************************)
(* get_module_path on its own: one call on a drawn registry and name       *)
(***************************************************************************)
InitResolve ==
    /\ magento_modules \in Registries
    /\ php_classes = EmptyMap
    /\ files = EmptyMap
    /\ inbox = <<>>
    /\ pos = 1
    /\ sender = <<>>
    /\ status = "running"
    /\ call = None
    /\ ret = None
    /\ init_params = [root_uri |-> Some(registrations(magento_modules)),
                      workspace_folders |-> <<>>]
    /\ tables_parsed = EmptyMap

CallModulePath(class) ==
    /\ call = None
    /\ call' = Some(class)
    /\ ret' = get_module_path(magento_modules, class)
    /\ UNCHANGED <<magento_modules, php_classes, files, inbox, pos, sender,
                   status,
                   init_params, tables_parsed>>

NextResolve ==
    /\ call = None
    /\ \E class \in ClassNames : CallModulePath(class)

SpecResolve == InitResolve /\ [][NextResolve]_vars

(***************************************************************************)
(* get_php_class_from_class_name on its own: one call on a drawn registry, *)
(* filesystem and name, the Class Index empty and one module directory     *)
(***************************************************************************)
IndexNames == {Join(s) : s \in SeqsUpTo(Segs, MaxIndexDepth) \ {<<>>}}
IndexPrefixes == {Join(s) : s \in SeqsUpTo(Segs, MaxIndexDepth - 1)}
IndexRegistries ==
    UNION {[P -> ServerDirs] : P \in SubsetsUpTo(IndexPrefixes, MaxModules)}
FsPaths ==
    {d \o s \o <<f>> :
        d \in ServerDirs, s \in SeqsUpTo(Segs, MaxIndexDepth - 1), f \in FileNames}
FileSystems ==
    UNION {[P -> {Garbage, ClassA}] : P \in SubsetsUpTo(FsPaths, MaxFiles)}

InitIndex ==
    /\ magento_modules \in IndexRegistries
    /\ php_classes = EmptyMap
    /\ files \in FileSystems
    /\ inbox = <<>>
    /\ pos = 1
    /\ sender = <<>>
    /\ status = "running"
    /\ call = None
    /\ ret = None
    /\ init_params = [root_uri |-> Some(registrations(magento_modules)),
                      workspace_folders |-> <<>>]
    /\ tables_parsed = EmptyMap

CallClass(class) ==
    /\ call = None
    /\ call' = Some(class)
    /\ LET r == get_php_class_from_class_name(php_classes, magento_modules,
                                              files, class)
       IN  /\ ret' = r.ret
           /\ php_classes' = r.php_classes
           /\ tables_parsed' = record_parse(tables_parsed, Some(ItemClass(class)), r)
    /\ UNCHANGED <<magento_modules, files, inbox, pos, sender, status,
                   init_params>>

NextIndex ==
    /\ call = None
    /\ \E class \in IndexNames : CallClass(class)

SpecIndex == InitIndex /\ [][NextIndex]_vars

(***************************************************************************)
(* The candidate path on its own (main.rs 128-131): one construction from  *)
(* a drawn module directory and suffix, whose segments are any strings of  *)
(* name tokens and dots                                                    *)
(***************************************************************************)
PathSegs ==
    (SeqsUpTo({"Foo", Dot}, MaxSegLen) \ {<<>>}) \cup {<<"Foo", Dot, "bar">>}
PathSuffixes == SeqsUpTo(PathSegs, MaxSuffix) \ {<<>>}

InitPath ==
    /\ magento_modules = EmptyMap
    /\ php_classes = EmptyMap
    /\ files = EmptyMap
    /\ inbox = <<>>
    /\ pos = 1
    /\ sender = <<>>
    /\ status = "running"
    /\ call = None
    /\ ret = None
    /\ init_params = [root_uri |-> Some(registrations(magento_modules)),
                      workspace_folders |-> <<>>]
    /\ tables_parsed = EmptyMap

CallCandidatePath(mod_path, suffix) ==
    /\ call = None
    /\ call' = Some(<<mod_path, suffix>>)
    /\ ret' = candidate_path(mod_path, suffix)
    /\ UNCHANGED <<magento_modules, php_classes, files, inbox, pos, sender,
                   status,
                   init_params, tables_parsed>>

NextPath ==
    /\ call = None
    /\ \E mod_path \in Dirs, suffix \in PathSuffixes :
          CallCandidatePath(mod_path, suffix)

SpecPath == InitPath /\ [][NextPath]_vars

(***************************************************************************)
(* Vocabulary of the properties                                            *)
(***************************************************************************)
\* prefix p is a proper ancestor of name n: n is p, a separator and at least
\* one more segment; the empty prefix is an ancestor of every name
IsAncestor(p, n) ==
    \/ p = <<>>
    \/ /\ Len(p) < Len(n)
       /\ SubSeq(n, 1, Len(p)) = p
       /\ n[Len(p) + 1] = Sep

RegisteredAncestors(n) == {p \in DOMAIN magento_modules : IsAncestor(p, n)}

LongestAncestor(n) ==
    CHOOSE p \in RegisteredAncestors(n) :
        \A q \in RegisteredAncestors(n) : Len(q) <= Len(p)

\* what is left of n after its ancestor p and the separator
Remainder(p, n) == IF p = <<>> THEN n ELSE SubSeq(n, Len(p) + 2, Len(n))

(***************************************************************************)
(* C1: when several registered prefixes are proper ancestors of the name,  *)
(* get_module_path returns the directory registered under the longest of   *)
(* them, with the segments after that prefix as the suffix.                *)
(***************************************************************************)
C1_LongestPrefixWins ==
    (call # None /\ Cardinality(RegisteredAncestors(call.val)) >= 2) =>
        LET p == LongestAncestor(call.val)
        IN  /\ ret # None
            /\ ret.val[1] = magento_modules[p]
            /\ Join(ret.val[2]) = Remainder(p, call.val)

\* a name with two registered non-empty ancestors in different directories
\* was resolved through the longer one
C1_Witness ==
    /\ call # None
    /\ ret # None
    /\ \E p, q \in RegisteredAncestors(call.val) :
          /\ p # <<>>
          /\ Len(p) < Len(q)
          /\ magento_modules[p] # magento_modules[q]
          /\ ret.val[1] = magento_modules[q]

(***************************************************************************)
(* Vocabulary of the server properties                                     *)
(***************************************************************************)
\* the file name of a class whose last segment is c: the class-file
\* extension replaces what follows the last dot that is not the first
\* character, and is added when there is no such dot
WithClassExtension(c) ==
    LET dots == {i \in 2..Len(c) : c[i] = Dot}
    IN  IF dots = {} THEN c \o <<Dot, "php">>
        ELSE SubSeq(c, 1, CHOOSE i \in dots : \A j \in dots : j <= i)
                 \o <<"php">>

\* the candidate file of a name that has a registered ancestor
ClassFile(n) ==
    LET p == LongestAncestor(n)
        segs == Split(Remainder(p, n))
    IN  magento_modules[p] \o Front(segs) \o <<WithClassExtension(Last(segs))>>

Parses(f) == f \in DOMAIN files /\ files[f].kind = "class"

\* the resolution of n succeeds in the current state
Resolves(n) ==
    \/ n \in DOMAIN php_classes
    \/ RegisteredAncestors(n) # {} /\ Parses(ClassFile(n))

\* the Symbol Table a successful resolution of n yields in the current state
SymbolTable(n) ==
    IF n \in DOMAIN php_classes THEN php_classes[n]
    ELSE [uri |-> ClassFile(n), range |-> files[ClassFile(n)].range,
          methods |-> files[ClassFile(n)].methods,
          constants |-> files[ClassFile(n)].constants]

\* this step is main_loop taking a definition request whose reference is item
Handling(item) ==
    /\ status = "running"
    /\ pos <= Len(inbox)
    /\ inbox[pos].msg = [kind |-> "definition", item |-> item]
    /\ pos' = pos + 1

\* this step sends exactly one response, to the request taken, with these
\* locations as its result and no error
Replied(locs) ==
    sender' = Append(sender, [id |-> inbox[pos].id,
                              result |-> Some([tag |-> "Array", locs |-> locs]),
                              error |-> None])

\* message i of the inbox reached the match of main_loop
Handled(i) ==
    /\ i < pos
    /\ \A j \in 1..(i - 1) :
          inbox[j].msg.kind \notin {"shutdown", "definition_bad_params"}

RepliesTo(i) == {j \in 1..Len(sender) : sender[j].id = inbox[i].id}

\* the definition request i was handled and answered with these locations
Answered(i, item, locs) ==
    /\ i < pos
    /\ Handled(i)
    /\ inbox[i].msg = [kind |-> "definition", item |-> item]
    /\ \E j \in RepliesTo(i) : sender[j].result = Some([tag |-> "Array",
                                                        locs |-> locs])

(***************************************************************************)
(* C2: once N is in the Class Index, resolving N returns the cached Symbol *)
(* Table whatever the registry and the filesystem hold, the entry stays    *)
(* what it is, and a class reference to N is answered from it.             *)
(***************************************************************************)
C2_CacheIdempotence ==
    [][\A n \in DOMAIN php_classes :
          /\ \A reg \in ServerRegistries, fs \in ServerFileSystems :
                get_php_class_from_class_name(php_classes, reg, fs, n)
                    = [ret |-> Some(php_classes[n]), php_classes |-> php_classes,
                       parsed |-> FALSE]
          /\ n \in DOMAIN php_classes'
          /\ php_classes'[n] = php_classes[n]
          /\ Handling(Some(ItemClass(n))) =>
                Replied(<<Location(php_classes[n].uri, php_classes[n].range)>>)
      ]_vars

\* N was resolved twice with the same non-empty answer and its file is gone
C2_Witness ==
    \E n \in DOMAIN php_classes :
        /\ pos = 3
        /\ Answered(1, Some(ItemClass(n)),
                    <<Location(php_classes[n].uri, php_classes[n].range)>>)
        /\ Answered(2, Some(ItemClass(n)),
                    <<Location(php_classes[n].uri, php_classes[n].range)>>)
        /\ php_classes[n].uri \notin DOMAIN files

(***************************************************************************)
(* C3: a method (constant) reference to a class that resolves, with a      *)
(* member name that is not in its methods (constants), is answered with    *)
(* the class's overall range.                                              *)
(***************************************************************************)
C3_MemberFallback ==
    [][\A c \in ServerNames, m \in MemberNames :
          /\ (/\ Handling(Some(ItemMethod(c, m)))
              /\ Resolves(c)
              /\ m \notin DOMAIN SymbolTable(c).methods)
                => Replied(<<Location(SymbolTable(c).uri, SymbolTable(c).range)>>)
          /\ (/\ Handling(Some(ItemConst(c, m)))
              /\ Resolves(c)
              /\ m \notin DOMAIN SymbolTable(c).constants)
                => Replied(<<Location(SymbolTable(c).uri, SymbolTable(c).range)>>)
      ]_vars

\* a method reference with a name the class only has as a constant was
\* answered with the class range
C3_Witness ==
    \E c \in DOMAIN php_classes, m \in MemberNames :
        /\ m \notin DOMAIN php_classes[c].methods
        /\ m \in DOMAIN php_classes[c].constants
        /\ php_classes[c].constants[m] # php_classes[c].range
        /\ Answered(1, Some(ItemMethod(c, m)),
                    <<Location(php_classes[c].uri, php_classes[c].range)>>)

(***************************************************************************)
(* C4: a reference to a class that resolves is answered with the URI of    *)
(* its Symbol Table and the class range (class reference), the method's    *)
(* range (method in the methods) or the constant's range (constant in the  *)
(* constants).                                                             *)
(***************************************************************************)
C4_LocationOfReference ==
    [][\A c \in ServerNames :
          Resolves(c) =>
            /\ Handling(Some(ItemClass(c))) =>
                  Replied(<<Location(SymbolTable(c).uri, SymbolTable(c).range)>>)
            /\ \A m \in MemberNames :
                  /\ (Handling(Some(ItemMethod(c, m)))
                        /\ m \in DOMAIN SymbolTable(c).methods)
                      => Replied(<<Location(SymbolTable(c).uri,
                                            SymbolTable(c).methods[m])>>)
                  /\ (Handling(Some(ItemConst(c, m)))
                        /\ m \in DOMAIN SymbolTable(c).constants)
                      => Replied(<<Location(SymbolTable(c).uri,
                                            SymbolTable(c).constants[m])>>)
      ]_vars

\* a method reference was answered with the method's own range
C4_Witness ==
    \E c \in DOMAIN php_classes, m \in MemberNames :
        /\ m \in DOMAIN php_classes[c].methods
        /\ php_classes[c].methods[m] # php_classes[c].range
        /\ Answered(1, Some(ItemMethod(c, m)),
                    <<Location(php_classes[c].uri, php_classes[c].methods[m])>>)

(***************************************************************************)
(* C5: every definition request main_loop takes is answered in the same    *)
(* step with exactly one response, without an error and with at most one   *)
(* location; when there is no reference at the cursor or the class does    *)
(* not resolve, the result is the empty array.  No other response ever     *)
(* carries the request's id.                                               *)
(***************************************************************************)
C5_OneReplyPerRequest ==
    \A i \in 1..Len(inbox) :
        inbox[i].msg.kind = "definition" =>
            Cardinality(RepliesTo(i)) = IF Handled(i) THEN 1 ELSE 0

C5_ReplyStep ==
    \A item \in Items :
        Handling(item) =>
            /\ Len(sender') = Len(sender) + 1
            /\ SubSeq(sender', 1, Len(sender)) = sender
            /\ LET r == sender'[Len(sender')]
               IN  /\ r.id = inbox[pos].id
                   /\ r.error = None
                   /\ r.result # None
                   /\ r.result.val.tag = "Array"
                   /\ Len(r.result.val.locs) <= 1
                   /\ (item = None \/ ~Resolves(item.val.class))
                         => r.result.val.locs = <<>>

C5_FailuresAreEmptyResults ==
    [](C5_OneReplyPerRequest) /\ [][C5_ReplyStep]_vars

\* a reference to a class whose file is missing or does not parse, and a
\* request without a reference, were both answered with the empty array
C5_Witness ==
    \E c \in ServerNames :
        /\ RegisteredAncestors(c) # {}
        /\ c \notin DOMAIN php_classes
        /\ Answered(1, Some(ItemClass(c)), <<>>)
        /\ Answered(2, None, <<>>)
        /\ Len(sender) = 2

(***************************************************************************)
(* C6: a name (one of the references, or one that is itself a prefix) that *)
(* is not cached and has no registered proper ancestor prefix              *)
(* makes get_module_path and get_php_class_from_class_name return None,    *)
(* and a class, method or constant reference to it is answered with the    *)
(* empty array, the Class Index unchanged.                                 *)
(***************************************************************************)
C6_NoAncestorNoResult ==
    \A n \in ServerNames \cup ServerPrefixes :
        (n \notin DOMAIN php_classes /\ RegisteredAncestors(n) = {}) =>
            /\ get_module_path(magento_modules, n) = None
            /\ get_php_class_from_class_name(php_classes, magento_modules,
                                             files, n).ret = None

C6_MissStep ==
    \A n \in ServerNames, m \in MemberNames :
        \A item \in {Some(ItemClass(n)), Some(ItemMethod(n, m)),
                     Some(ItemConst(n, m))} :
            (/\ Handling(item)
             /\ n \notin DOMAIN php_classes
             /\ RegisteredAncestors(n) = {})
                => Replied(<<>>) /\ php_classes' = php_classes

C6_LookupMiss ==
    [](C6_NoAncestorNoResult) /\ [][C6_MissStep]_vars

\* a method reference to a name without a registered ancestor was answered
\* with the empty array although a module is registered and files exist
C6_Witness ==
    \E n \in ServerNames, m \in MemberNames :
        /\ RegisteredAncestors(n) = {}
        /\ DOMAIN magento_modules # {}
        /\ DOMAIN files = ServerPaths
        /\ \A f \in DOMAIN files : files[f].kind = "class"
        /\ n \notin DOMAIN php_classes
        /\ Answered(1, Some(ItemMethod(n, m)), <<>>)

(***************************************************************************)
(* C9: a resolution that fails leaves the Class Index as it was, and a     *)
(* request for a name that is not cached succeeds whenever a prefix is     *)
(* registered and the candidate file exists and parses, whatever happened  *)
(* to earlier requests for it.                                             *)
(***************************************************************************)
C9_CacheHoldsOnlySuccesses ==
    [][\A n \in ServerNames, m \in MemberNames :
          \A item \in {Some(ItemClass(n)), Some(ItemMethod(n, m)),
                       Some(ItemConst(n, m))} :
              Handling(item) =>
                  IF Resolves(n)
                  THEN /\ n \in DOMAIN php_classes'
                       /\ php_classes'[n] = SymbolTable(n)
                       /\ \E loc \in {Location(SymbolTable(n).uri, r) :
                                        r \in {SymbolTable(n).range}
                                          \cup {SymbolTable(n).methods[x] :
                                                  x \in DOMAIN SymbolTable(n).methods}
                                          \cup {SymbolTable(n).constants[x] :
                                                  x \in DOMAIN SymbolTable(n).constants}} :
                             Replied(<<loc>>)
                  ELSE /\ php_classes' = php_classes
                       /\ Replied(<<>>)
      ]_vars

\* the same class reference failed first and succeeded when asked again
C9_Witness ==
    \E n \in DOMAIN php_classes :
        /\ Answered(1, Some(ItemClass(n)), <<>>)
        /\ Answered(2, Some(ItemClass(n)),
                    <<Location(php_classes[n].uri, php_classes[n].range)>>)

(***************************************************************************)
(* C10: an entry of the Class Index is never removed or changed.           *)
(***************************************************************************)
C10_NoEviction ==
    [][\A n \in DOMAIN php_classes :
          n \in DOMAIN php_classes' /\ php_classes'[n] = php_classes[n]]_vars

\* N is cached, a request for another name was handled after it, and the
\* file N came from now holds something else
C10_Witness ==
    \E n \in DOMAIN php_classes, other \in ServerNames \ DOMAIN php_classes :
        /\ Answered(1, Some(ItemClass(n)),
                    <<Location(php_classes[n].uri, php_classes[n].range)>>)
        /\ Answered(2, Some(ItemClass(other)), <<>>)
        /\ php_classes[n].uri \in DOMAIN files
        /\ files[php_classes[n].uri].kind = "class"
        /\ files[php_classes[n].uri].range # php_classes[n].range

(***************************************************************************)
(* C7: for a name that is not cached and has a registered ancestor, the    *)
(* candidate file is the module directory of the longest one, the suffix   *)
(* segments as components and the class-file extension on the last; the    *)
(* resolution succeeds exactly when that file exists and parses, and then  *)
(* returns the Symbol Table of that file and caches it.                    *)
(***************************************************************************)
C7_CandidateDecides ==
    (call # None /\ RegisteredAncestors(call.val) # {}) =>
        LET f == ClassFile(call.val)
        IN  /\ ret # None <=> Parses(f)
            /\ ret # None =>
                  /\ ret.val.uri = f
                  /\ ret.val.range = files[f].range
                  /\ php_classes = (call.val :> ret.val)

\* a name resolved through a suffix of two segments
C7_Witness ==
    /\ call # None
    /\ ret # None
    /\ RegisteredAncestors(call.val) # {}
    /\ Len(Split(Remainder(LongestAncestor(call.val), call.val))) = 2
    /\ Len(ret.val.uri) = 3

(***************************************************************************)
(* C8: when the last segment of the suffix has an extension (a dot that is *)
(* not its first character, the segment not being ".."), the last          *)
(* component of the candidate path is the segment up to its last dot       *)
(* followed by the class-file extension; the extension is not appended to  *)
(* the segment.                                                            *)
(***************************************************************************)
HasExtension(c) ==
    c # <<Dot, Dot>> /\ \E i \in 2..Len(c) : c[i] = Dot

C8_ExtensionReplaced ==
    (call # None /\ HasExtension(Last(call.val[2]))) =>
        LET c == Last(call.val[2])
            last_dot == CHOOSE i \in 1..Len(c) :
                            c[i] = Dot /\ \A j \in (i + 1)..Len(c) : c[j] # Dot
        IN  /\ Last(ret) = SubSeq(c, 1, last_dot) \o <<"php">>
            /\ Last(ret) # c \o <<Dot, "php">>
            /\ Len(ret) = Len(PushAll(call.val[1], call.val[2]))

\* Foo.bar became Foo.php
C8_Witness ==
    /\ call # None
    /\ Last(call.val[2]) = <<"Foo", Dot, "bar">>
    /\ Last(ret) = <<"Foo", Dot, "php">>

(***************************************************************************)
(* C11: parse_php_file makes at most one Symbol Table for a name.          *)
(* main_loop takes one request at a time, so two resolutions of a name     *)
(* never overlap; a name is in the Class Index exactly when the parser     *)
(* made one table for it, and a request handled while the name is cached   *)
(* does not make the parser produce another.                               *)
(***************************************************************************)
C11_OneTablePerName ==
    \A n \in ServerNames :
        parse_count(tables_parsed, n) = IF n \in DOMAIN php_classes THEN 1 ELSE 0

C11_AtMostOneParse ==
    [](C11_OneTablePerName)
    /\ [][\A n \in DOMAIN php_classes :
            parse_count(tables_parsed', n) = parse_count(tables_parsed, n)]_vars

\* N was resolved by two requests, its file is still there and parses, and
\* the parser made one table for it
C11_Witness ==
    \E n \in DOMAIN php_classes :
        /\ Answered(1, Some(ItemClass(n)),
                    <<Location(php_classes[n].uri, php_classes[n].range)>>)
        /\ Answered(2, Some(ItemClass(n)),
                    <<Location(php_classes[n].uri, php_classes[n].range)>>)
        /\ Parses(php_classes[n].uri)
        /\ tables_parsed[n] = 1

(***************************************************************************)
(* C12: the request loop serves while the registry scan is pending: when   *)
(* the scan of the roots has not completed and a definition request is     *)
(* first in the channel, main_loop can take that request.                  *)
(***************************************************************************)
C12_ServesWhileScanning ==
    (/\ status = "starting"
     /\ pos <= Len(inbox)
     /\ inbox[pos].msg.kind = "definition")
        => ENABLED HandleDefinition

(***************************************************************************)
(* C13: main_loop handles the messages one at a time in arrival order.  A  *)
(* step that takes a message takes the first one not yet taken, changes    *)
(* the Class Index and sends the response of a definition request in that  *)
(* same step, and nothing else changes the Class Index or sends; so the    *)
(* responses are in the order of their requests, each to a request         *)
(* already taken.                                                          *)
(***************************************************************************)
C13_RepliesInOrder ==
    /\ \A i \in 1..Len(inbox) : inbox[i].id = i
    /\ \A j \in 1..Len(sender) : sender[j].id < pos
    /\ \A j, k \in 1..Len(sender) : j < k => sender[j].id < sender[k].id

C13_TakeStep ==
    /\ pos' # pos =>
          /\ pos <= Len(inbox)
          /\ pos' > pos
          /\ inbox' = inbox
          /\ \/ sender' = sender
             \/ /\ Len(sender') = Len(sender) + 1
                /\ SubSeq(sender', 1, Len(sender)) = sender
                /\ sender'[Len(sender')].id = inbox[pos].id
          /\ inbox[pos].msg.kind = "definition" =>
                /\ pos' = pos + 1
                /\ Len(sender') = Len(sender) + 1
    /\ pos' = pos => sender' = sender /\ php_classes' = php_classes

C13_OneAtATime ==
    [](C13_RepliesInOrder) /\ [][C13_TakeStep]_vars

\* two requests for the same class: the first filled the Class Index, the
\* second was answered from it after the file was deleted, and the two
\* responses are in the order of the requests
C13_Witness ==
    \E n \in DOMAIN php_classes, m \in MemberNames :
        /\ m \in DOMAIN php_classes[n].methods
        /\ Answered(1, Some(ItemClass(n)),
                    <<Location(php_classes[n].uri, php_classes[n].range)>>)
        /\ Answered(2, Some(ItemMethod(n, m)),
                    <<Location(php_classes[n].uri, php_classes[n].methods[m])>>)
        /\ php_classes[n].uri \notin DOMAIN files
        /\ Len(sender) = 2
        /\ sender[1].id = inbox[1].id
        /\ sender[2].id = inbox[2].id

(***************************************************************************)
(* C14: the scan is run for every configured root, the initial root and    *)
(* each workspace folder: once main_loop receives, every module            *)
(* registration found under any of them has its prefix in the Module       *)
(* Registry.                                                               *)
(***************************************************************************)
ConfiguredRoots ==
    (IF init_params.root_uri = None THEN {} ELSE {init_params.root_uri.val})
    \cup {init_params.workspace_folders[i] :
            i \in 1..Len(init_params.workspace_folders)}

C14_EveryRootScanned ==
    status = "running" =>
        \A root \in ConfiguredRoots :
            \A e \in root : e[1] \in DOMAIN magento_modules

(***************************************************************************)
(* C15 as stated: when the registry has an entry whose prefix is exactly   *)
(* the full name, get_module_path matches that entry (its directory, and   *)
(* nothing left as the suffix).                                            *)
(***************************************************************************)
C15_EqualPrefixMatches ==
    (call # None /\ call.val \in DOMAIN magento_modules) =>
        ret = Some(<<magento_modules[call.val], <<>>>>)

(***************************************************************************)
(* C15 amended: get_module_path finds the longest registered prefix that   *)
(* is a proper ancestor of the name.  An entry whose prefix is exactly the *)
(* full name is never matched: such a name is resolved through its         *)
(* longest registered proper ancestor, with a suffix that is not empty,    *)
(* and is not resolved when it has no registered proper ancestor.          *)
(***************************************************************************)
C15_EqualPrefixIgnored ==
    (call # None /\ call.val \in DOMAIN magento_modules) =>
        IF RegisteredAncestors(call.val) = {}
        THEN ret = None
        ELSE LET p == LongestAncestor(call.val)
             IN  /\ ret # None
                 /\ ret.val[1] = magento_modules[p]
                 /\ ret.val[2] # <<>>
                 /\ Join(ret.val[2]) = Remainder(p, call.val)

\* a name that is itself a registered prefix was resolved through a shorter
\* prefix registered in another directory
C15_Witness ==
    /\ call # None
    /\ call.val \in DOMAIN magento_modules
    /\ ret # None
    /\ ret.val[1] # magento_modules[call.val]
    /\ LongestAncestor(call.val) # <<>>

(***************************************************************************)
(* C16: when get_module_path succeeds, the suffix it returns is not empty  *)
(* and is in the order of the name: the segments of the matched prefix     *)
(* followed by the segments of the suffix are the segments of the name.    *)
(***************************************************************************)
PrefixSegments(p) == IF p = <<>> THEN <<>> ELSE Split(p)

C16_SuffixCompletesName ==
    (call # None /\ ret # None) =>
        /\ ret.val[2] # <<>>
        /\ \E p \in DOMAIN magento_modules :
              /\ magento_modules[p] = ret.val[1]
              /\ PrefixSegments(p) \o ret.val[2] = Split(call.val)

\* a name of three segments resolved through its first segment, the two
\* segments of the suffix being different
C16_Witness ==
    /\ call # None
    /\ ret # None
    /\ Len(Split(call.val)) = 3
    /\ Len(ret.val[2]) = 2
    /\ ret.val[2][1] # ret.val[2][2]
    /\ ret.val[2] = SubSeq(Split(call.val), 2, 3)

(***************************************************************************)
(* C19: there is no fallback to a shorter prefix.  When the candidate file *)
(* of the longest registered ancestor of a name that is not cached is      *)
(* missing or does not parse, the resolution fails and caches nothing,     *)
(* also when the candidate file of a shorter registered ancestor exists    *)
(* and parses.                                                             *)
(***************************************************************************)
\* the candidate file n would have through its registered ancestor p
ClassFileVia(p, n) ==
    LET segs == Split(Remainder(p, n))
    IN  magento_modules[p] \o Front(segs) \o <<WithClassExtension(Last(segs))>>

C19_NoFallback ==
    (/\ call # None
     /\ RegisteredAncestors(call.val) # {}
     /\ ~Parses(ClassFile(call.val)))
        => /\ ret = None
           /\ php_classes = EmptyMap

\* the file of the longest ancestor does not parse, the file of a shorter
\* ancestor is a class, and the resolution failed
C19_Witness ==
    /\ call # None
    /\ ret = None
    /\ RegisteredAncestors(call.val) # {}
    /\ ClassFile(call.val) \in DOMAIN files
    /\ files[ClassFile(call.val)] = Garbage
    /\ \E p \in RegisteredAncestors(call.val) :
          /\ p # LongestAncestor(call.val)
          /\ Parses(ClassFileVia(p, call.val))

(***************************************************************************)
(* C17: the insert of get_location_from_params is a no-op.  For every      *)
(* reference whose class resolves, get_php_class_from_class_name leaves    *)
(* the class in the Class Index with the Symbol Table it returns, so the   *)
(* Class Index after the dispatcher's insert is the Class Index the        *)
(* lookup left, and a name keeps the one Symbol Table stored for it.       *)
(***************************************************************************)
C17_ReinsertIsNoOp ==
    \A item \in Items \ {None} :
        LET c == item.val.class
            r == get_php_class_from_class_name(php_classes, magento_modules,
                                               files, c)
            loc == get_location_from_params(php_classes, magento_modules,
                                            files, item)
        IN  r.ret # None =>
                /\ c \in DOMAIN r.php_classes
                /\ r.php_classes[c] = r.ret.val
                /\ insert(r.php_classes, c, r.ret.val) = r.php_classes
                /\ loc.php_classes = r.php_classes
                /\ c \in DOMAIN php_classes => loc.php_classes = php_classes

\* a class reference was answered from a miss, a method reference to the
\* same class from the hit, and the entry is the table of the first answer
C17_Witness ==
    \E n \in DOMAIN php_classes, m \in MemberNames :
        /\ tables_parsed[n] = 1
        /\ Answered(1, Some(ItemClass(n)),
                    <<Location(php_classes[n].uri, php_classes[n].range)>>)
        /\ Answered(2, Some(ItemConst(n, m)),
                    <<Location(php_classes[n].uri,
                               member_range(php_classes[n].constants, m,
                                            php_classes[n].range))>>)
        /\ DOMAIN php_classes = {n}

(***************************************************************************)
(* C18: the Module Registry only grows, and only while the Indexer is      *)
(* built: no step removes or changes an entry, and a step of the request   *)
(* loop, whatever the request and its outcome, leaves the registry as it   *)
(* is.                                                                     *)
(***************************************************************************)
C18_RegistryFrame ==
    [][/\ \A p \in DOMAIN magento_modules :
             /\ p \in DOMAIN magento_modules'
             /\ magento_modules'[p] = magento_modules[p]
       /\ status # "starting" => magento_modules' = magento_modules
       /\ pos' # pos => magento_modules' = magento_modules
      ]_vars

\* after a request that failed and a request that succeeded the registry is
\* still what the scan of the initial root built
C18_Witness ==
    \E c, d \in ServerNames :
        /\ Answered(1, Some(ItemClass(c)), <<>>)
        /\ d \in DOMAIN php_classes
        /\ Answered(2, Some(ItemClass(d)),
                    <<Location(php_classes[d].uri, php_classes[d].range)>>)
        /\ init_params.root_uri # None
        /\ magento_modules = get_modules_map(init_params.root_uri.val)
        /\ magento_modules # EmptyMap

(***************************************************************************)
(* C20: every entry of the Class Index is sound.  The name of an entry has *)
(* a registered proper ancestor, and its Symbol Table is that of a class   *)
(* source at the candidate file of the name; an entry appears only in a    *)
(* step that handles a reference to its name while that file exists and    *)
(* parses, with the table of the file as it is then.  No entry appears for *)
(* a name without a registered ancestor, with a missing file or with a     *)
(* file that does not parse.                                               *)
(***************************************************************************)
C20_SoundEntries ==
    \A n \in DOMAIN php_classes :
        /\ n \in ServerNames
        /\ RegisteredAncestors(n) # {}
        /\ php_classes[n].uri = ClassFile(n)
        /\ \E c \in Contents :
              /\ c.kind = "class"
              /\ php_classes[n].range = c.range
              /\ php_classes[n].methods = c.methods
              /\ php_classes[n].constants = c.constants

C20_EntryStep ==
    \A n \in DOMAIN php_classes' \ DOMAIN php_classes :
        /\ RegisteredAncestors(n) # {}
        /\ Parses(ClassFile(n))
        /\ php_classes'[n] = SymbolTable(n)
        /\ \E item \in Items \ {None} : item.val.class = n /\ Handling(item)

C20_CacheSoundness ==
    [](C20_SoundEntries) /\ [][C20_EntryStep]_vars

\* the request for a name whose candidate file does not parse left no
\* entry, and the one entry of the Class Index is of a file that is gone
\* since
C20_Witness ==
    \E n \in DOMAIN php_classes, other \in ServerNames :
        /\ DOMAIN php_classes = {n}
        /\ other # n
        /\ Answered(1, Some(ItemClass(other)), <<>>)
        /\ Answered(2, Some(ItemClass(n)),
                    <<Location(php_classes[n].uri, php_classes[n].range)>>)
        /\ php_classes[n].uri \notin DOMAIN files
        /\ RegisteredAncestors(other) # {}
        /\ ClassFile(other) \in DOMAIN files
        /\ files[ClassFile(other)] = Garbage

====
